---- MODULE Spec2Model ----
(***************************************************************************)
(* Model of hprdbghv/code/vmm/vmx/VmxRegions.c: the allocators of the VMX  *)
(* regions of one logical processor (VMXON region, VMCS region, VMM stack, *)
(* MSR bitmap, I/O bitmaps) and the builder of the invalid-MSR bitmap.     *)
(*                                                                         *)
(* Representation.                                                         *)
(*  - An address is a natural number below 2^AddrBits (a window of the     *)
(*    64-bit address space; no address of the model is within a page of    *)
(*    the top of the window, so ULONG_PTR arithmetic never wraps).         *)
(*  - A 64-bit value that is not an address is a tuple of four 16-bit      *)
(*    limbs, least significant first.                                      *)
(*  - An MSR index (32 bits) is a pair <<high 16 bits, low 16 bits>>.      *)
(*  - The content of a buffer is the function from the offsets of its      *)
(*    non-zero bytes to these bytes; every other byte is zero.             *)
(*  - ev is the sequence of the primitive calls made by the last           *)
(*    operation, in program order, ending with its return.                 *)
(***************************************************************************)
EXTENDS Integers, Sequences, FiniteSets, TLC

VARIABLES VCpu, heap, Irql, halted, hw, ev, ret, calls

vars == <<VCpu, heap, Irql, halted, hw, ev, ret, calls>>

(***************************************************************************)
(* Bounds of the model.                                                    *)
(***************************************************************************)
MaxCalls  == 1      \* operations called on one context (Spec)
MaxProbes == 2      \* builds of the invalid-MSR bitmap (SpecProbe)
AddrBits  == 24     \* width of the modelled address window

(***************************************************************************)
(* Program constants.                                                      *)
(***************************************************************************)
NULL                == 0
ALIGNMENT_PAGE_SIZE == 4096
PAGE_SIZE           == 4096
VMXON_SIZE          == 4096
VMCS_SIZE           == 4096
VMM_STACK_SIZE      == 32768
DISPATCH_LEVEL      == 2
IA32_VMX_BASIC      == 1152
InvalidMsrBitmapSize == 512     \* 0x1000 / 0x8
MsrProbeCount        == 4096    \* 0x1000

\* ret.val of an operation that never returned (the system bug-checked)
NoReturn == 0 - 1
\* outcome of KeRaiseIrqlToDpcLevel that stops the system
BugCheck == 0 - 1

(***************************************************************************)
(* Inputs: what the platform and the hardware may answer.                  *)
(***************************************************************************)
\* offset in its page of the start of a contiguous allocation
RawOffsets == {0, 1, 4095}
\* values of the IA32_VMX_BASIC capability register (limbs, low first)
VmxBasicValues == { <<31, 0, 0, 0>>,
                    <<31, 32768, 218, 4>>,
                    <<65535, 65535, 65535, 65535>> }
\* status of the vmxon instruction: 0 success, 1 and 2 failure
VmxonStatuses == {0, 1, 2}
\* IRQL at which the first operation is entered (PASSIVE, DISPATCH, HIGH)
EntryIrqls == {0, 2, 15}
\* IA32_EFER
EferMsr == <<49152, 128>>

(***************************************************************************)
(* Events.                                                                 *)
(***************************************************************************)
ZeroU64 == <<0, 0, 0, 0>>

Ev(k, a, b, c) == [k |-> k, a |-> a, b |-> b, c |-> c, v |-> ZeroU64, msg |-> ""]

EvMsr(index, value) ==
    [k |-> "__readmsr", a |-> index, b |-> 0, c |-> 0, v |-> value, msg |-> ""]

LogError(msg) ==
    [k |-> "LogError", a |-> 0, b |-> 0, c |-> 0, v |-> ZeroU64, msg |-> msg]

Return(val) == Ev("return", val, 0, 0)

(***************************************************************************)
(* Bit arithmetic on addresses.                                            *)
(***************************************************************************)
RECURSIVE BitAnd(_, _, _)
BitAnd(a, b, n) ==
    IF n = 0 THEN 0
    ELSE (a % 2) * (b % 2) + 2 * BitAnd(a \div 2, b \div 2, n - 1)

\* ~a
BitNot(a) == (2 ^ AddrBits - 1) - a

\* a forgotten "+ ALIGNMENT_PAGE_SIZE - 1": the address is rounded down
AlignDown(p) == BitAnd(p, BitNot(ALIGNMENT_PAGE_SIZE - 1), AddrBits)

\* (p + ALIGNMENT_PAGE_SIZE - 1) & ~(ALIGNMENT_PAGE_SIZE - 1)
AlignUp(p) ==
    BitAnd(p + ALIGNMENT_PAGE_SIZE - 1, BitNot(ALIGNMENT_PAGE_SIZE - 1), AddrBits)

(***************************************************************************)
(* Memory.                                                                 *)
(***************************************************************************)
NoBytes == [o \in {} |-> 0]

Byte(bytes, off) == IF off \in DOMAIN bytes THEN bytes[off] ELSE 0

SetByte(bytes, off, val) ==
    [o \in (DOMAIN bytes \ {off}) \cup (IF val = 0 THEN {} ELSE {off}) |->
        IF o = off THEN val ELSE bytes[o]]

\* RtlZeroMemory(Destination, Length) on the content of a buffer
RtlZeroMemory(bytes, Length) ==
    [o \in {q \in DOMAIN bytes : q >= Length} |-> bytes[o]]

\* the index in the heap of the buffer that holds address va, 0 if none
BufferAt(h, va) ==
    IF \E j \in 1..Len(h) : h[j].base <= va /\ va < h[j].base + h[j].size
    THEN CHOOSE j \in 1..Len(h) : h[j].base <= va /\ va < h[j].base + h[j].size
    ELSE 0

\* store of one byte; a store outside every buffer changes no buffer
StoreByte(h, va, val) ==
    LET j == BufferAt(h, va)
    IN IF j = 0 THEN h
       ELSE [h EXCEPT ![j].bytes = SetByte(@, va - h[j].base, val)]

LoadByte(h, va) ==
    LET j == BufferAt(h, va)
    IN IF j = 0 THEN 0 ELSE Byte(h[j].bytes, va - h[j].base)

\* *(UINT64 *)va = val, little endian
Store64(h, va, val) ==
    LET h0 == StoreByte(h, va, val[1] % 256)
        h1 == StoreByte(h0, va + 1, val[1] \div 256)
        h2 == StoreByte(h1, va + 2, val[2] % 256)
        h3 == StoreByte(h2, va + 3, val[2] \div 256)
        h4 == StoreByte(h3, va + 4, val[3] % 256)
        h5 == StoreByte(h4, va + 5, val[3] \div 256)
        h6 == StoreByte(h5, va + 6, val[4] % 256)
    IN StoreByte(h6, va + 7, val[4] \div 256)

\* *(UINT64 *)va
Load64(h, va) ==
    << LoadByte(h, va)     + 256 * LoadByte(h, va + 1),
       LoadByte(h, va + 2) + 256 * LoadByte(h, va + 3),
       LoadByte(h, va + 4) + 256 * LoadByte(h, va + 5),
       LoadByte(h, va + 6) + 256 * LoadByte(h, va + 7) >>

\* RtlZeroMemory(va, Length) on the heap
ZeroAt(h, va, Length) ==
    LET j == BufferAt(h, va)
    IN IF j = 0 THEN h
       ELSE [h EXCEPT ![j].bytes = RtlZeroMemory(@, Length)]

(***************************************************************************)
(* Platform memory service.                                                *)
(***************************************************************************)
SlotSize == 2 ^ 16
PhysBase == 2 ^ (AddrBits - 1)

\* the start of the address range the next allocation comes from
FreshBase(h) == (Len(h) + 1) * SlotSize

NewBuffer(base, size, tag, bytes) ==
    [base |-> base, size |-> size, phys |-> PhysBase + base, tag |-> tag,
     bytes |-> bytes]

\* the results CrsAllocateContiguousZeroedMemory may give: failure or the
\* start of a fresh zeroed buffer, at any offset in its page
CrsAllocateContiguousZeroedMemory(h) ==
    {NULL} \cup {FreshBase(h) + off : off \in RawOffsets}

\* the results ExAllocatePoolWithTag may give: failure or the start of a
\* fresh buffer
ExAllocatePoolWithTag(h) == {NULL, FreshBase(h)}

\* what a buffer of the pool may hold when it is handed out
PoolGarbage(size) ==
    {NoBytes, [o \in {0, size - 1} |-> IF o = 0 THEN 255 ELSE 170]}

\* the heap after an allocator returned va
Allocated(h, va, size, tag, bytes) ==
    IF va = NULL THEN h ELSE Append(h, NewBuffer(va, size, tag, bytes))

\* VirtualAddressToPhysicalAddress: contiguous inside a buffer, and it keeps
\* the offset in the page; an unmapped address translates to 0
VirtualAddressToPhysicalAddress(h, va) ==
    LET j == BufferAt(h, va)
    IN IF j = 0 THEN 0 ELSE h[j].phys + (va - h[j].base)

(***************************************************************************)
(* Hardware.                                                               *)
(***************************************************************************)
\* IA32_VMX_BASIC_REGISTER.VmcsRevisionId taken as the low 32 bits
VmcsRevisionIdWide(msr) == <<msr[1], msr[2], 0, 0>>

\* IA32_VMX_BASIC_REGISTER.VmcsRevisionId, a bit field of 31 bits, as the
\* UINT64 it is assigned to
VmcsRevisionId(msr) == <<msr[1], msr[2] % 32768, 0, 0>>

\* the IRQL after KeRaiseIrqlToDpcLevel() entered at irql.  At or below
\* DISPATCH_LEVEL the routine raises to DISPATCH_LEVEL.  Above it the call
\* breaks the routine's contract: the IRQL is written as DISPATCH_LEVEL, or
\* stays where it is (a raise never lowers), or the system bug-checks.
KeRaiseIrqlToDpcLevel(irql) ==
    IF irql <= DISPATCH_LEVEL THEN {DISPATCH_LEVEL}
    ELSE {DISPATCH_LEVEL, irql, BugCheck}

\* the pointer test "== NULL" left out
NeverNull(p) == FALSE

\* p == NULL
IsNull(p) == p = NULL

\* the size of the raw allocation behind a region without the spare page
\* and the doubling
RegionAllocSizeExact(RegionSize) == RegionSize

\* 2 * RegionSize + ALIGNMENT_PAGE_SIZE
RegionAllocSize(RegionSize) == 2 * RegionSize + ALIGNMENT_PAGE_SIZE

\* the result of an operation: the state it leaves and what it returns
Result(c, h, irql, e, val) ==
    [VCpu |-> c, heap |-> h, Irql |-> irql, halted |-> FALSE,
     ev |-> Append(e, Return(val)), ret |-> val]

\* the operation did not return: the system stopped inside it
Halted(c, h, irql, e) ==
    [VCpu |-> c, heap |-> h, Irql |-> irql, halted |-> TRUE,
     ev |-> e, ret |-> NoReturn]

EvStore(va, value) ==
    [k |-> "store64", a |-> va, b |-> 0, c |-> 0, v |-> value, msg |-> ""]

\* the IRQL test made before the contiguous allocation, and the call of
\* KeRaiseIrqlToDpcLevel (whose effect is irqlOut) when it is taken
RaiseIfAboveDispatch(irql, irqlOut) ==
    IF irql > DISPATCH_LEVEL
    THEN [Irql |-> irqlOut,
          ev   |-> <<Ev("KeRaiseIrqlToDpcLevel", irql, irqlOut, 0)>>]
    ELSE [Irql |-> irql, ev |-> <<>>]

(***************************************************************************)
(* VmxAllocateVmxonRegion.  s is the state at entry; irqlOut, VmxonRegion, *)
(* VmxBasicMsr and VmxonStatus are the answers of KeRaiseIrqlToDpcLevel,   *)
(* CrsAllocateContiguousZeroedMemory, __readmsr and __vmx_on.              *)
(***************************************************************************)
VmxAllocateVmxonRegion(s, irqlOut, VmxonRegion, VmxBasicMsr, VmxonStatus) ==
    LET g  == RaiseIfAboveDispatch(s.Irql, irqlOut)
        AllocSize == RegionAllocSize(VMXON_SIZE)
        h1 == Allocated(s.heap, VmxonRegion, AllocSize, "Vmxon", NoBytes)
        e1 == Append(g.ev, Ev("CrsAllocateContiguousZeroedMemory",
                              AllocSize, VmxonRegion, g.Irql))
        VmxonRegionPhysicalAddr == VirtualAddressToPhysicalAddress(h1, VmxonRegion)
        AlignedVmxonRegion == AlignUp(VmxonRegion)
        AlignedVmxonRegionPhysicalAddr == AlignUp(VmxonRegionPhysicalAddr)
        h2 == Store64(h1, AlignedVmxonRegion, VmcsRevisionId(VmxBasicMsr))
        e2 == e1 \o << Ev("VirtualAddressToPhysicalAddress", VmxonRegion,
                          VmxonRegionPhysicalAddr, 0),
                       EvMsr(IA32_VMX_BASIC, VmxBasicMsr),
                       EvStore(AlignedVmxonRegion, VmcsRevisionId(VmxBasicMsr)),
                       Ev("__vmx_on", AlignedVmxonRegionPhysicalAddr, VmxonStatus, 0) >>
    IN IF g.Irql = BugCheck
       THEN Halted(s.VCpu, s.heap, s.Irql, g.ev)
       ELSE IF IsNull(VmxonRegion)
       THEN Result(s.VCpu, h1, g.Irql,
                   Append(e1, LogError("Err, couldn't allocate buffer for VMXON region")),
                   0)
       ELSE IF VmxonStatus # 0
       THEN Result(s.VCpu, h2, g.Irql,
                   Append(e2, LogError("Err, executing vmxon instruction failed with status : %d")),
                   0)
       ELSE Result([s.VCpu EXCEPT
                       !.VmxonRegionPhysicalAddress = AlignedVmxonRegionPhysicalAddr,
                       !.VmxonRegionVirtualAddress  = VmxonRegion],
                   h2, g.Irql, e2, 1)

(***************************************************************************)
(* VmxAllocateVmcsRegion.                                                  *)
(***************************************************************************)
VmxAllocateVmcsRegion(s, irqlOut, VmcsRegion, VmxBasicMsr) ==
    LET g  == RaiseIfAboveDispatch(s.Irql, irqlOut)
        AllocSize == RegionAllocSize(VMCS_SIZE)
        h1 == Allocated(s.heap, VmcsRegion, AllocSize, "Vmcs", NoBytes)
        e1 == Append(g.ev, Ev("CrsAllocateContiguousZeroedMemory",
                              AllocSize, VmcsRegion, g.Irql))
        VmcsPhysicalAddr == VirtualAddressToPhysicalAddress(h1, VmcsRegion)
        AlignedVmcsRegion == AlignUp(VmcsRegion)
        AlignedVmcsRegionPhysicalAddr == AlignUp(VmcsPhysicalAddr)
        h2 == Store64(h1, AlignedVmcsRegion, VmcsRevisionId(VmxBasicMsr))
        e2 == e1 \o << Ev("VirtualAddressToPhysicalAddress", VmcsRegion,
                          VmcsPhysicalAddr, 0),
                       EvMsr(IA32_VMX_BASIC, VmxBasicMsr),
                       EvStore(AlignedVmcsRegion, VmcsRevisionId(VmxBasicMsr)) >>
    IN IF g.Irql = BugCheck
       THEN Halted(s.VCpu, s.heap, s.Irql, g.ev)
       ELSE IF IsNull(VmcsRegion)
       THEN Result(s.VCpu, h1, g.Irql,
                   Append(e1, LogError("Err, couldn't allocate Buffer for VMCS region")),
                   0)
       ELSE Result([s.VCpu EXCEPT
                       !.VmcsRegionPhysicalAddress = AlignedVmcsRegionPhysicalAddr,
                       !.VmcsRegionVirtualAddress  = VmcsRegion],
                   h2, g.Irql, e2, 1)

(***************************************************************************)
(* VmxAllocateVmmStack.  VmmStack and garbage are the answer of            *)
(* ExAllocatePoolWithTag and the content of the buffer it hands out.       *)
(***************************************************************************)
VmxAllocateVmmStack(s, VmmStack, garbage) ==
    LET h1 == Allocated(s.heap, VmmStack, VMM_STACK_SIZE, "VmmStack", garbage)
        c1 == [s.VCpu EXCEPT !.VmmStack = VmmStack]
        e1 == <<Ev("ExAllocatePoolWithTag", VMM_STACK_SIZE, VmmStack, s.Irql)>>
        h2 == ZeroAt(h1, c1.VmmStack, VMM_STACK_SIZE)
    IN IF IsNull(c1.VmmStack)
       THEN Result(c1, h1, s.Irql,
                   Append(e1, LogError("Err, insufficient memory in allocationg vmm stack")),
                   0)
       ELSE Result(c1, h2, s.Irql,
                   Append(e1, Ev("RtlZeroMemory", c1.VmmStack, VMM_STACK_SIZE, 0)),
                   1)

(***************************************************************************)
(* VmxAllocateMsrBitmap.                                                   *)
(***************************************************************************)
VmxAllocateMsrBitmap(s, MsrBitmap, garbage) ==
    LET h1 == Allocated(s.heap, MsrBitmap, PAGE_SIZE, "MsrBitmap", garbage)
        c1 == [s.VCpu EXCEPT !.MsrBitmapVirtualAddress = MsrBitmap]
        e1 == <<Ev("ExAllocatePoolWithTag", PAGE_SIZE, MsrBitmap, s.Irql)>>
        h2 == ZeroAt(h1, c1.MsrBitmapVirtualAddress, PAGE_SIZE)
        pa == VirtualAddressToPhysicalAddress(h2, c1.MsrBitmapVirtualAddress)
        c2 == [c1 EXCEPT !.MsrBitmapPhysicalAddress = pa]
    IN IF IsNull(c1.MsrBitmapVirtualAddress)
       THEN Result(c1, h1, s.Irql,
                   Append(e1, LogError("Err, insufficient memory in allocationg MSR Bitmaps")),
                   0)
       ELSE Result(c2, h2, s.Irql,
                   e1 \o << Ev("RtlZeroMemory", c1.MsrBitmapVirtualAddress, PAGE_SIZE, 0),
                            Ev("VirtualAddressToPhysicalAddress",
                               c1.MsrBitmapVirtualAddress, pa, 0) >>,
                   1)

\* a zeroing with the length of the invalid-MSR bitmap instead of PAGE_SIZE
ZeroIoBitmapShort(h, va) == ZeroAt(h, va, InvalidMsrBitmapSize)

\* RtlZeroMemory(VCpu->IoBitmapVirtualAddressA, PAGE_SIZE), and the same
\* for bitmap B
ZeroIoBitmap(h, va) == ZeroAt(h, va, PAGE_SIZE)

(***************************************************************************)
(* VmxAllocateIoBitmaps.  BitmapA, garbageA and BitmapB, garbageB are the  *)
(* answers of the first and of the second ExAllocatePoolWithTag.           *)
(***************************************************************************)
VmxAllocateIoBitmaps(s, BitmapA, garbageA, BitmapB, garbageB) ==
    LET hA1 == Allocated(s.heap, BitmapA, PAGE_SIZE, "IoBitmapA", garbageA)
        cA1 == [s.VCpu EXCEPT !.IoBitmapVirtualAddressA = BitmapA]
        eA1 == <<Ev("ExAllocatePoolWithTag", PAGE_SIZE, BitmapA, s.Irql)>>
        hA2 == ZeroIoBitmap(hA1, cA1.IoBitmapVirtualAddressA)
        paA == VirtualAddressToPhysicalAddress(hA2, cA1.IoBitmapVirtualAddressA)
        cA2 == [cA1 EXCEPT !.IoBitmapPhysicalAddressA = paA]
        eA2 == eA1 \o << Ev("RtlZeroMemory", cA1.IoBitmapVirtualAddressA, PAGE_SIZE, 0),
                         Ev("VirtualAddressToPhysicalAddress",
                            cA1.IoBitmapVirtualAddressA, paA, 0) >>
        hB1 == Allocated(hA2, BitmapB, PAGE_SIZE, "IoBitmapB", garbageB)
        cB1 == [cA2 EXCEPT !.IoBitmapVirtualAddressB = BitmapB]
        eB1 == Append(eA2, Ev("ExAllocatePoolWithTag", PAGE_SIZE, BitmapB, s.Irql))
        hB2 == ZeroIoBitmap(hB1, cB1.IoBitmapVirtualAddressB)
        paB == VirtualAddressToPhysicalAddress(hB2, cB1.IoBitmapVirtualAddressB)
        cB2 == [cB1 EXCEPT !.IoBitmapPhysicalAddressB = paB]
        eB2 == eB1 \o << Ev("RtlZeroMemory", cB1.IoBitmapVirtualAddressB, PAGE_SIZE, 0),
                         Ev("VirtualAddressToPhysicalAddress",
                            cB1.IoBitmapVirtualAddressB, paB, 0) >>
    IN IF IsNull(cA1.IoBitmapVirtualAddressA)
       THEN Result(cA1, hA1, s.Irql,
                   Append(eA1, LogError("Err, insufficient memory in allocationg I/O Bitmaps A")),
                   0)
       ELSE IF IsNull(cB1.IoBitmapVirtualAddressB)
       THEN Result(cB1, hB1, s.Irql,
                   Append(eB1, LogError("Err, insufficient memory in allocationg I/O Bitmaps B")),
                   0)
       ELSE Result(cB2, hB2, s.Irql, eB2, 1)

(***************************************************************************)
(* VmxAllocateInvalidMsrBimap.                                             *)
(***************************************************************************)
\* the MSR index the loop counter i stands for
MsrIndex(i) == <<i \div 65536, i % 65536>>

\* bit nr of a bitmap
TestBit(bytes, nr) == (Byte(bytes, nr \div 8) \div (2 ^ (nr % 8))) % 2 = 1

\* SetBit(nr, bitmap)
SetBit(nr, bytes) ==
    IF TestBit(bytes, nr) THEN bytes
    ELSE SetByte(bytes, nr \div 8, Byte(bytes, nr \div 8) + 2 ^ (nr % 8))

\* the handler run on the wrong outcome: the bit is set when the read of
\* index i does not fault
ProbeMsrInverted(i, FaultSet, p) ==
    LET fault == MsrIndex(i) \in FaultSet
    IN [bytes |-> IF ~fault THEN SetBit(i, p.bytes) ELSE p.bytes,
        ev    |-> Append(p.ev, Ev("__readmsr", i, IF fault THEN 1 ELSE 0, 0))]

\* one iteration: __try { __readmsr(i); } __except (...) { SetBit(i, ...); }
\* p is the content of the bitmap and the calls made so far
ProbeMsr(i, FaultSet, p) ==
    LET fault == MsrIndex(i) \in FaultSet
    IN [bytes |-> IF fault THEN SetBit(i, p.bytes) ELSE p.bytes,
        ev    |-> Append(p.ev, Ev("__readmsr", i, IF fault THEN 1 ELSE 0, 0))]

\* for (i = lo; i < hi; ++i) ProbeMsr(i): the iterations run in ascending
\* order, the first half of the range before the second (the halving only
\* bounds the depth of the evaluation; the test of first makes it strict)
RECURSIVE ForEachMsr(_, _, _, _)
ForEachMsr(lo, hi, FaultSet, p) ==
    IF lo >= hi THEN p
    ELSE IF hi - lo = 1 THEN ProbeMsr(lo, FaultSet, p)
    ELSE LET mid   == (lo + hi) \div 2
             first == ForEachMsr(lo, mid, FaultSet, p)
         IN IF Len(first.ev) >= 0 THEN ForEachMsr(mid, hi, FaultSet, first) ELSE first

\* a loop that stops one index early
MsrProbeLimitShort == MsrProbeCount - 1

\* the bound of the loop "i < 0x1000"
MsrProbeLimit == MsrProbeCount

VmxAllocateInvalidMsrBimap(s, InvalidMsrBitmap, garbage, FaultSet) ==
    LET h1 == Allocated(s.heap, InvalidMsrBitmap, InvalidMsrBitmapSize,
                        "InvalidMsrBitmap", garbage)
        e1 == <<Ev("ExAllocatePoolWithTag", InvalidMsrBitmapSize,
                   InvalidMsrBitmap, s.Irql)>>
        h2 == ZeroAt(h1, InvalidMsrBitmap, InvalidMsrBitmapSize)
        e2 == Append(e1, Ev("RtlZeroMemory", InvalidMsrBitmap,
                            InvalidMsrBitmapSize, 0))
        j  == BufferAt(h2, InvalidMsrBitmap)
        p  == ForEachMsr(0, MsrProbeLimit, FaultSet,
                         [bytes |-> IF j = 0 THEN NoBytes ELSE h2[j].bytes,
                          ev    |-> e2])
        h3 == IF j = 0 THEN h2 ELSE [h2 EXCEPT ![j].bytes = p.bytes]
    IN IF IsNull(InvalidMsrBitmap)
       THEN Result(s.VCpu, h1, s.Irql, e1, NULL)
       ELSE Result(s.VCpu, h3, s.Irql, p.ev, InvalidMsrBitmap)

(***************************************************************************)
(* The state machine.                                                      *)
(***************************************************************************)
\* the context before any allocator ran
EmptyVCpu ==
    [VmxonRegionPhysicalAddress |-> NULL, VmxonRegionVirtualAddress |-> NULL,
     VmcsRegionPhysicalAddress  |-> NULL, VmcsRegionVirtualAddress  |-> NULL,
     VmmStack                   |-> NULL,
     MsrBitmapVirtualAddress    |-> NULL, MsrBitmapPhysicalAddress  |-> NULL,
     IoBitmapVirtualAddressA    |-> NULL, IoBitmapPhysicalAddressA  |-> NULL,
     IoBitmapVirtualAddressB    |-> NULL, IoBitmapPhysicalAddressB  |-> NULL]

\* sets of MSR indices whose read faults on the processor
SpecFaultSets == { {}, {MsrIndex(7), EferMsr} }

ProbeIndices == { MsrIndex(0), MsrIndex(7), MsrIndex(8), MsrIndex(128),
                  MsrIndex(4095), MsrIndex(4096), EferMsr }

ProbeFaultSets == { F \in SUBSET ProbeIndices : Cardinality(F) <= 2 }

InitCommon ==
    /\ VCpu = EmptyVCpu
    /\ heap = <<>>
    /\ halted = FALSE
    /\ ev = <<>>
    /\ ret = [op |-> "", val |-> 0]
    /\ calls = 0

Init ==
    /\ InitCommon
    /\ Irql \in EntryIrqls
    /\ hw \in [VmxBasic : VmxBasicValues, FaultSet : SpecFaultSets]

InitProbe ==
    /\ InitCommon
    /\ Irql = 0
    /\ hw \in [VmxBasic : {<<31, 0, 0, 0>>}, FaultSet : ProbeFaultSets]

Cur == [VCpu |-> VCpu, heap |-> heap, Irql |-> Irql]

Commit(op, r) ==
    /\ VCpu' = r.VCpu
    /\ heap' = r.heap
    /\ Irql' = r.Irql
    /\ halted' = r.halted
    /\ ev' = r.ev
    /\ ret' = [op |-> op, val |-> r.ret]
    /\ calls' = calls + 1
    /\ UNCHANGED hw

CallVmxAllocateVmxonRegion ==
    /\ ~halted
    /\ calls < MaxCalls
    /\ \E irqlOut \in KeRaiseIrqlToDpcLevel(Irql),
          VmxonRegion \in CrsAllocateContiguousZeroedMemory(heap),
          VmxonStatus \in VmxonStatuses :
            Commit("VmxAllocateVmxonRegion",
                   VmxAllocateVmxonRegion(Cur, irqlOut, VmxonRegion,
                                          hw.VmxBasic, VmxonStatus))

CallVmxAllocateVmcsRegion ==
    /\ ~halted
    /\ calls < MaxCalls
    /\ \E irqlOut \in KeRaiseIrqlToDpcLevel(Irql),
          VmcsRegion \in CrsAllocateContiguousZeroedMemory(heap) :
            Commit("VmxAllocateVmcsRegion",
                   VmxAllocateVmcsRegion(Cur, irqlOut, VmcsRegion, hw.VmxBasic))

CallVmxAllocateVmmStack ==
    /\ ~halted
    /\ calls < MaxCalls
    /\ \E VmmStack \in ExAllocatePoolWithTag(heap),
          garbage \in PoolGarbage(VMM_STACK_SIZE) :
            Commit("VmxAllocateVmmStack",
                   VmxAllocateVmmStack(Cur, VmmStack, garbage))

CallVmxAllocateMsrBitmap ==
    /\ ~halted
    /\ calls < MaxCalls
    /\ \E MsrBitmap \in ExAllocatePoolWithTag(heap),
          garbage \in PoolGarbage(PAGE_SIZE) :
            Commit("VmxAllocateMsrBitmap",
                   VmxAllocateMsrBitmap(Cur, MsrBitmap, garbage))

CallVmxAllocateIoBitmaps ==
    /\ ~halted
    /\ calls < MaxCalls
    /\ \E BitmapA \in ExAllocatePoolWithTag(heap),
          garbageA \in PoolGarbage(PAGE_SIZE), garbageB \in PoolGarbage(PAGE_SIZE) :
         \E BitmapB \in ExAllocatePoolWithTag(
                           Allocated(heap, BitmapA, PAGE_SIZE, "IoBitmapA", garbageA)) :
            Commit("VmxAllocateIoBitmaps",
                   VmxAllocateIoBitmaps(Cur, BitmapA, garbageA, BitmapB, garbageB))

CallVmxAllocateInvalidMsrBimap ==
    /\ ~halted
    /\ calls < MaxCalls
    /\ \E InvalidMsrBitmap \in ExAllocatePoolWithTag(heap),
          garbage \in PoolGarbage(InvalidMsrBitmapSize) :
            Commit("VmxAllocateInvalidMsrBimap",
                   VmxAllocateInvalidMsrBimap(Cur, InvalidMsrBitmap, garbage,
                                              hw.FaultSet))

\* the invalid-MSR bitmap built, and built again, on the same processor
RebuildInvalidMsrBitmap ==
    /\ ~halted
    /\ calls < MaxProbes
    /\ \E InvalidMsrBitmap \in ExAllocatePoolWithTag(heap),
          garbage \in PoolGarbage(InvalidMsrBitmapSize) :
            Commit("VmxAllocateInvalidMsrBimap",
                   VmxAllocateInvalidMsrBimap(Cur, InvalidMsrBitmap, garbage,
                                              hw.FaultSet))

Next ==
    \/ CallVmxAllocateVmxonRegion
    \/ CallVmxAllocateVmcsRegion
    \/ CallVmxAllocateVmmStack
    \/ CallVmxAllocateMsrBitmap
    \/ CallVmxAllocateIoBitmaps
    \/ CallVmxAllocateInvalidMsrBimap

NextProbe == RebuildInvalidMsrBitmap

Spec == Init /\ [][Next]_vars

SpecProbe == InitProbe /\ [][NextProbe]_vars

(***************************************************************************)
(* Reading the calls of the last operation.                                *)
(***************************************************************************)
RegionOps == {"VmxAllocateVmxonRegion", "VmxAllocateVmcsRegion"}

AllocKinds == {"CrsAllocateContiguousZeroedMemory", "ExAllocatePoolWithTag"}

\* the positions in ev of the calls of kind k
Calls(k) == {n \in 1..Len(ev) : ev[n].k = k}

\* the position of the only call of kind k (0 when there is none)
TheCall(k) == IF Calls(k) = {} THEN 0 ELSE CHOOSE n \in Calls(k) : TRUE

\* the last operation made a region: its contiguous allocation succeeded
RegionPrepared ==
    /\ ret.op \in RegionOps
    /\ \E n \in Calls("CrsAllocateContiguousZeroedMemory") : ev[n].b # NULL

\* the raw start of the region's buffer and its raw physical address
RawVirtual  == ev[TheCall("CrsAllocateContiguousZeroedMemory")].b
RawPhysical == ev[TheCall("VirtualAddressToPhysicalAddress")].b

\* the size of the region's buffer and of the region itself
RawSize    == ev[TheCall("CrsAllocateContiguousZeroedMemory")].a
RegionSize == IF ret.op = "VmxAllocateVmxonRegion" THEN VMXON_SIZE ELSE VMCS_SIZE

\* the address that received the revision identifier
StampedAddress == ev[TheCall("store64")].a

\* the physical address the last region operation left in the context
StoredPhysical ==
    IF ret.op = "VmxAllocateVmxonRegion"
    THEN VCpu.VmxonRegionPhysicalAddress
    ELSE VCpu.VmcsRegionPhysicalAddress

\* the virtual address the last region operation left in the context
StoredVirtual ==
    IF ret.op = "VmxAllocateVmxonRegion"
    THEN VCpu.VmxonRegionVirtualAddress
    ELSE VCpu.VmcsRegionVirtualAddress

\* x is the smallest multiple of 4096 that is >= raw
IsPageRoundUp(x, raw) == x % 4096 = 0 /\ x >= raw /\ x - raw < 4096

\* the smallest multiple of 4096 that is >= raw
PageRoundUp(raw) == ((raw + 4095) \div 4096) * 4096

(***************************************************************************)
(* C1: whenever VmxAllocateVmxonRegion or VmxAllocateVmcsRegion returns    *)
(* TRUE, the virtual address it stamped and the physical address it stored *)
(* in the context are multiples of 4096, each the smallest multiple that   *)
(* is >= the raw address the platform returned.                            *)
(***************************************************************************)
C1_AlignedAddresses ==
    (ret.op \in RegionOps /\ ret.val = 1) =>
        /\ Cardinality(Calls("store64")) = 1
        /\ IsPageRoundUp(StampedAddress, RawVirtual)
        /\ IsPageRoundUp(StoredPhysical, RawPhysical)

\* a region was made from a buffer that starts one byte after a page start
C1_Witness ==
    /\ ret.op = "VmxAllocateVmxonRegion"
    /\ ret.val = 1
    /\ RawVirtual % 4096 = 1
    /\ RawPhysical % 4096 = 1

(***************************************************************************)
(* C2: after a region was prepared, the 64-bit value at offset 0 of the    *)
(* page-aligned region is the low 31 bits of the IA32_VMX_BASIC value read *)
(* during the call, the upper 33 bits zero (low 31 bits 0x1F give 31), and *)
(* every other byte of the aligned region is zero.                         *)
(***************************************************************************)
C2_RevisionStamp ==
    RegionPrepared =>
        LET A     == PageRoundUp(RawVirtual)
            msr   == ev[TheCall("__readmsr")].v
            value == Load64(heap, A)
        IN /\ Cardinality(Calls("__readmsr")) = 1
           /\ ev[TheCall("__readmsr")].a = IA32_VMX_BASIC
           /\ value[1] = msr[1]
           /\ value[2] = msr[2] % 32768
           /\ value[3] = 0
           /\ value[4] = 0
           /\ (msr[1] = 31 /\ msr[2] % 32768 = 0) => value = <<31, 0, 0, 0>>
           /\ \A off \in 8..(RegionSize - 1) : LoadByte(heap, A + off) = 0

\* a VMCS region stamped from a capability value whose low 31 bits are 0x1F
\* and whose bit 31 and upper bits are not zero
C2_Witness ==
    /\ ret.op = "VmxAllocateVmcsRegion"
    /\ ret.val = 1
    /\ hw.VmxBasic = <<31, 32768, 218, 4>>
    /\ Load64(heap, PageRoundUp(RawVirtual)) = <<31, 0, 0, 0>>

(***************************************************************************)
(* C10: for every raw start V of the (2 x region size + page size)-byte    *)
(* buffer, under a translation that is contiguous and keeps the offset in  *)
(* the page, the aligned region [A, A + region size), A = V rounded up to  *)
(* 4096, lies inside the buffer; the physical address rounded on its own   *)
(* is the translation of A, so the address given to the hardware and       *)
(* stored in the context is that of the page that got the stamp; the       *)
(* virtual pointer stored in the context is the raw V.                     *)
(***************************************************************************)
C10_AlignedRegionInsideBuffer ==
    (RegionPrepared /\ RawPhysical % 4096 = RawVirtual % 4096) =>
        LET V == RawVirtual
            A == PageRoundUp(V)
        IN /\ RawSize = 2 * RegionSize + 4096
           /\ V <= A
           /\ A + RegionSize <= V + RawSize
           /\ BufferAt(heap, A) # 0
           /\ BufferAt(heap, A) = BufferAt(heap, V)
           /\ BufferAt(heap, A + RegionSize - 1) = BufferAt(heap, V)
           /\ StampedAddress = A
           /\ PageRoundUp(RawPhysical) = VirtualAddressToPhysicalAddress(heap, A)
           /\ \A n \in Calls("__vmx_on") :
                 ev[n].a = VirtualAddressToPhysicalAddress(heap, A)
           /\ ret.val = 1 =>
                 /\ StoredPhysical = VirtualAddressToPhysicalAddress(heap, A)
                 /\ StoredVirtual = V

\* a region made from a buffer that ends its page: A is V + 1, not V
C10_Witness ==
    /\ ret.op = "VmxAllocateVmcsRegion"
    /\ ret.val = 1
    /\ RawVirtual % 4096 = 4095
    /\ StoredVirtual = RawVirtual
    /\ StampedAddress = RawVirtual + 1

(***************************************************************************)
(* C3: when the memory allocation for a structure fails, the allocator     *)
(* returns failure (FALSE, NULL for the invalid-MSR bitmap), the call      *)
(* publishes no non-null virtual or physical address for that structure    *)
(* in the context, and nothing is translated, stamped, zeroed or activated *)
(* after the failed allocation.                                            *)
(***************************************************************************)
\* the fields of the context that belong to the structure whose allocation
\* is call n of the operation op
FieldsOf(op, e, n) ==
    IF op = "VmxAllocateVmxonRegion"
    THEN {"VmxonRegionVirtualAddress", "VmxonRegionPhysicalAddress"}
    ELSE IF op = "VmxAllocateVmcsRegion"
    THEN {"VmcsRegionVirtualAddress", "VmcsRegionPhysicalAddress"}
    ELSE IF op = "VmxAllocateVmmStack"
    THEN {"VmmStack"}
    ELSE IF op = "VmxAllocateMsrBitmap"
    THEN {"MsrBitmapVirtualAddress", "MsrBitmapPhysicalAddress"}
    ELSE IF op = "VmxAllocateIoBitmaps"
    THEN IF \E m \in 1..(n - 1) : e[m].k \in AllocKinds
         THEN {"IoBitmapVirtualAddressB", "IoBitmapPhysicalAddressB"}
         ELSE {"IoBitmapVirtualAddressA", "IoBitmapPhysicalAddressA"}
    ELSE {}

C3_FailedAllocationPublishesNothing ==
    [][ \A n \in 1..Len(ev') :
          (ev'[n].k \in AllocKinds /\ ev'[n].b = NULL) =>
              /\ ret'.val = 0
              /\ \A m \in (n + 1)..Len(ev') : ev'[m].k \in {"LogError", "return"}
              /\ \A f \in FieldsOf(ret'.op, ev', n) :
                    VCpu'[f] = NULL \/ VCpu'[f] = VCpu[f]
      ]_vars

\* the allocation of the VMXON buffer failed on an empty context
C3_Witness ==
    /\ ret.op = "VmxAllocateVmxonRegion"
    /\ ret.val = 0
    /\ \E n \in Calls("CrsAllocateContiguousZeroedMemory") : ev[n].b = NULL
    /\ VCpu.VmxonRegionVirtualAddress = NULL
    /\ VCpu.VmxonRegionPhysicalAddress = NULL

(***************************************************************************)
(* C4: when __vmx_on returns a non-zero status after a successful          *)
(* allocation, VmxAllocateVmxonRegion reports failure without retrying,    *)
(* and the page-aligned, stamped VMXON region has its addresses populated  *)
(* in the context (VmxonRegionPhysicalAddress, VmxonRegionVirtualAddress), *)
(* so that the caller can release the buffer.                              *)
(***************************************************************************)
C4_ActivationFailureKeepsAddresses ==
    (ret.op = "VmxAllocateVmxonRegion"
        /\ \E n \in Calls("__vmx_on") : ev[n].b # 0) =>
        /\ ret.val = 0
        /\ Cardinality(Calls("__vmx_on")) = 1
        /\ IsPageRoundUp(StampedAddress, RawVirtual)
        /\ VCpu.VmxonRegionVirtualAddress = RawVirtual
        /\ VCpu.VmxonRegionPhysicalAddress = PageRoundUp(RawPhysical)

(***************************************************************************)
(* C7: on every path that returns a failure (FALSE from the five VCpu      *)
(* allocators, NULL from VmxAllocateInvalidMsrBimap) an error diagnostic   *)
(* is logged before the return; the allocation failure and the activation  *)
(* failure of the VMXON step log distinct diagnostics and both return      *)
(* FALSE.                                                                  *)
(***************************************************************************)
C7_EveryFailureIsLogged ==
    (ret.op # "" /\ ret.val = 0) =>
        /\ \E n \in Calls("LogError") : \E m \in Calls("return") : n < m
        /\ (ret.op = "VmxAllocateVmxonRegion") =>
              (ev[TheCall("LogError")].msg = "Err, couldn't allocate buffer for VMXON region"
                 <=> Calls("__vmx_on") = {})

(***************************************************************************)
(* C8: for every IRQL at entry to VmxAllocateVmxonRegion or                *)
(* VmxAllocateVmcsRegion, the IRQL is at or below DISPATCH_LEVEL at the    *)
(* moment the contiguous-memory allocator is called.                       *)
(***************************************************************************)
C8_AllocatorCalledAtOrBelowDispatch ==
    \A n \in Calls("CrsAllocateContiguousZeroedMemory") : ev[n].c <= DISPATCH_LEVEL

(***************************************************************************)
(* C9: VmxAllocateIoBitmaps returns TRUE only if bitmap A and bitmap B     *)
(* were both allocated, each a zero-filled page of 4096 bytes with its     *)
(* virtual and physical address recorded; if A fails, B is never           *)
(* attempted; if B fails after A succeeded, the call returns FALSE and     *)
(* bitmap A stays allocated with its addresses published in the context.   *)
(***************************************************************************)
\* the positions of the pool allocations of the last operation, in order
PoolCalls == Calls("ExAllocatePoolWithTag")
FirstPoolCall  == CHOOSE n \in PoolCalls : \A m \in PoolCalls : n <= m
SecondPoolCall == CHOOSE n \in PoolCalls : \A m \in PoolCalls : m <= n

\* va starts a live buffer that is one zero-filled page, recorded as
\* virtual address v and physical address p
IsZeroedPage(va, v, p) ==
    /\ va # NULL
    /\ BufferAt(heap, va) # 0
    /\ heap[BufferAt(heap, va)].base = va
    /\ heap[BufferAt(heap, va)].size = 4096
    /\ \A off \in 0..4095 : LoadByte(heap, va + off) = 0
    /\ v = va
    /\ p = heap[BufferAt(heap, va)].phys

C9_IoBitmaps ==
    (ret.op = "VmxAllocateIoBitmaps") =>
        LET A == ev[FirstPoolCall].b
            B == ev[SecondPoolCall].b
        IN /\ ret.val = 1 =>
                /\ Cardinality(PoolCalls) = 2
                /\ A # B
                /\ IsZeroedPage(A, VCpu.IoBitmapVirtualAddressA,
                                   VCpu.IoBitmapPhysicalAddressA)
                /\ IsZeroedPage(B, VCpu.IoBitmapVirtualAddressB,
                                   VCpu.IoBitmapPhysicalAddressB)
           /\ A = NULL => (Cardinality(PoolCalls) = 1 /\ ret.val = 0)
           /\ (A # NULL /\ Cardinality(PoolCalls) = 2 /\ B = NULL) =>
                /\ ret.val = 0
                /\ IsZeroedPage(A, VCpu.IoBitmapVirtualAddressA,
                                   VCpu.IoBitmapPhysicalAddressA)

\* bitmap B failed after bitmap A was allocated from a page full of rubbish
C9_Witness ==
    /\ ret.op = "VmxAllocateIoBitmaps"
    /\ ret.val = 0
    /\ Cardinality(PoolCalls) = 2
    /\ ev[FirstPoolCall].b # NULL
    /\ ev[SecondPoolCall].b = NULL
    /\ VCpu.IoBitmapPhysicalAddressA # NULL

(***************************************************************************)
(* C5: when VmxAllocateInvalidMsrBimap returns a bitmap, the loop has read *)
(* each MSR index 0..4095 exactly once, in ascending order (a fault stops  *)
(* or skips nothing); bit i of the 4096-bit bitmap is set if and only if   *)
(* the read of index i faulted; a rebuild with the same fault set gives    *)
(* the same bitmap.                                                        *)
(***************************************************************************)
\* the reads of the last operation, in program order
Reads == SelectSeq(ev, LAMBDA e : e.k = "__readmsr")

\* the content of the bitmap the last operation returned
BuiltBitmap == heap[BufferAt(heap, ret.val)].bytes

ProbeReturnedBitmap ==
    ret.op = "VmxAllocateInvalidMsrBimap" /\ ret.val # NULL

C5_InvalidMsrBitmap ==
    ProbeReturnedBitmap =>
        LET reads  == Reads
            bitmap == BuiltBitmap
        IN /\ Len(reads) = 4096
           /\ \A i \in 0..4095 :
                 /\ reads[i + 1].a = i
                 /\ (reads[i + 1].b = 1) <=> (MsrIndex(i) \in hw.FaultSet)
                 /\ TestBit(bitmap, i) <=> (reads[i + 1].b = 1)
           /\ heap[BufferAt(heap, ret.val)].size * 8 = 4096
           /\ DOMAIN bitmap \subseteq 0..511
           /\ \A j \in 1..Len(heap) :
                 heap[j].tag = "InvalidMsrBitmap" => heap[j].bytes = bitmap

\* the bitmap was built twice on a processor where the reads of indices 7
\* and 4095 fault: both bits are set although the first fault came early
C5_Witness ==
    /\ ProbeReturnedBitmap
    /\ hw.FaultSet = {MsrIndex(7), MsrIndex(4095)}
    /\ Cardinality({j \in 1..Len(heap) : heap[j].tag = "InvalidMsrBitmap"}) = 2
    /\ TestBit(BuiltBitmap, 7)
    /\ TestBit(BuiltBitmap, 4095)

(***************************************************************************)
(* C6: if the MSR read faults only for index 0xC0000080, then after        *)
(* VmxAllocateInvalidMsrBimap completes bit 0xC0000080 of the invalid-MSR  *)
(* bitmap is set and all other bits are clear.                             *)
(***************************************************************************)
\* bit idx (an MSR index) of the bitmap: the bitmap has the bits 0..4095
BitOfMsr(bytes, idx) == idx[1] = 0 /\ idx[2] < 4096 /\ TestBit(bytes, idx[2])

C6_EferBitSet ==
    (ProbeReturnedBitmap /\ hw.FaultSet = {EferMsr}) =>
        /\ BitOfMsr(BuiltBitmap, EferMsr)
        /\ \A i \in 0..4095 : MsrIndex(i) # EferMsr => ~TestBit(BuiltBitmap, i)

(***************************************************************************)
(* C6 as amended: if the MSR read faults only for index 0xC0000080, then   *)
(* after VmxAllocateInvalidMsrBimap completes every bit of the 4096-bit    *)
(* bitmap is clear: index 0xC0000080 is outside the probed range 0..4095,  *)
(* it is never read and the bitmap has no bit for it.                      *)
(***************************************************************************)
C6_EferOutsideBitmap ==
    (ProbeReturnedBitmap /\ hw.FaultSet = {EferMsr}) =>
        LET reads  == Reads
            bitmap == BuiltBitmap
        IN /\ \A i \in 0..4095 : ~TestBit(bitmap, i)
           /\ \A n \in 1..Len(reads) : MsrIndex(reads[n].a) # EferMsr
           /\ ~BitOfMsr(bitmap, EferMsr)

\* the bitmap was built, from a buffer full of rubbish or not, on a
\* processor where only the read of 0xC0000080 faults
C6_Witness ==
    /\ ProbeReturnedBitmap
    /\ hw.FaultSet = {EferMsr}
    /\ Len(Reads) = 4096

====
